---------------------------- MODULE Spec2Model ----------------------------
(***************************************************************************)
(* Flappy Birb (src/src/main.ts): the pure state-transition engine (tick,  *)
(* jump, checkCollisions, RNG) and the recording / ghost-replay streams    *)
(* built around it in state$ and createGhostBirds$.                        *)
(*                                                                         *)
(* Number representation.  The source computes in IEEE doubles.  Here      *)
(*   - lengths and velocities are integers in thousandths of a pixel       *)
(*     (Px(n) is n pixels), so GRAVITY 0.3 is 300 and JUMP_VELOCITY -4 is  *)
(*     -4000;                                                              *)
(*   - times are integers in milliseconds (gameTime 0.016 is 16, the 0.2   *)
(*     tolerance of the ghost lookup is 200);                              *)
(*   - template fractions (0..1 of the canvas height) are integers in      *)
(*     thousandths, so fraction * CANVAS_HEIGHT is again in thousandths of *)
(*     a pixel;                                                            *)
(*   - RNG.scale is carried in millionths, and the bounce velocity is      *)
(*     truncated to the thousandth of a pixel;                             *)
(*   - NaN (a malformed CSV field after Number()) is one distinguished     *)
(*     value with the IEEE comparison rules written out in LeqN / LtN.     *)
(***************************************************************************)
EXTENDS Integers, Sequences, FiniteSets, TLC

(***************************************************************************)
(* Constants of the program                                                *)
(***************************************************************************)
CANVAS_WIDTH == 600
CANVAS_HEIGHT == 400
Birb_WIDTH == 42
Birb_HEIGHT == 30
PIPE_WIDTH == 50
TICK_RATE_MS == 16
PIPE_SPEED == 2
INITIAL_LIVES == 3
RNG_SEED == 1234
RNG_a == 1103515245
RNG_c == 12345
\* RNG.m - 1 = 2^31 - 1; RNG.m itself is written Pow2(31) only in comments,
\* every use below is through its 31 low bits.
RNG_mMinus1 == 2147483647
\* the ghost lookup tolerance 0.2 s, in milliseconds
Tolerance == 200
\* number of distinct opacities (index % 5)
OpacityCycle == 5

Px(n) == n * 1000
\* gravity with its sign lost
GRAVITY_upward == 0 - Px(3) \div 10
\* const GRAVITY = 0.3
GRAVITY == Px(3) \div 10
JUMP_VELOCITY == Px(0 - 4)
PIPE_SPAWN_X == Px(CANVAS_WIDTH)
Birb_INITIAL_X == (Px(CANVAS_WIDTH) * 3) \div 10
Birb_INITIAL_Y == Px(CANVAS_HEIGHT) \div 2

Abs(n) == IF n < 0 THEN 0 - n ELSE n
Max(a, b) == IF a >= b THEN a ELSE b
Min(a, b) == IF a <= b THEN a ELSE b

(***************************************************************************)
(* NaN: Number("abc") of a malformed field.  Arithmetic with NaN gives     *)
(* NaN, every ordering comparison with NaN is false.                       *)
(***************************************************************************)
NaN == -2147483647
IsNaN(v) == v = NaN
LeqN(a, b) == ~IsNaN(a) /\ ~IsNaN(b) /\ a <= b
LtN(a, b) == ~IsNaN(a) /\ ~IsNaN(b) /\ a < b
MulN(a, b) == IF IsNaN(a) \/ IsNaN(b) THEN NaN ELSE a * b
AddN(a, b) == IF IsNaN(a) \/ IsNaN(b) THEN NaN ELSE a + b
SubN(a, b) == IF IsNaN(a) \/ IsNaN(b) THEN NaN ELSE a - b
HalfN(a) == IF IsNaN(a) THEN NaN ELSE a \div 2

(***************************************************************************)
(* RNG.hash in double arithmetic.  a * seed is up to 61 bits wide and a    *)
(* double keeps 53: the product, and then the sum with c, are each rounded *)
(* to nearest-even at 53 significant bits before % m takes the low 31      *)
(* bits.  Numbers wider than 31 bits are pairs <<hi, lo>> = hi * 2^31 + lo *)
(***************************************************************************)
RECURSIVE Pow2(_)
Pow2(n) == IF n = 0 THEN 1 ELSE 2 * Pow2(n - 1)

RECURSIVE BitLen(_)
BitLen(n) == IF n = 0 THEN 0 ELSE 1 + BitLen(n \div 2)

\* the four base-1024 digits of a 31-bit number, least significant first
Digits(n) ==
    << n % 1024, (n \div 1024) % 1024, (n \div 1048576) % 1024, n \div 1073741824 >>

\* exact product x * y of two 31-bit numbers as <<hi, lo>>
Mul62(x, y) ==
    LET dx == Digits(x)
        dy == Digits(y)
        col(k) == LET I == {i \in 1..4 : k + 2 - i \in 1..4}
                      RECURSIVE sum(_)
                      sum(S) == IF S = {} THEN 0
                                ELSE LET i == CHOOSE j \in S : TRUE
                                     IN dx[i] * dy[k + 2 - i] + sum(S \ {i})
                  IN sum(I)
        \* carry propagation, digit k (0-based) and the carry out of it
        RECURSIVE carryIn(_)
        carryIn(k) == IF k = 0 THEN 0 ELSE (col(k - 1) + carryIn(k - 1)) \div 1024
        d(k) == (col(k) + carryIn(k)) % 1024
        lo == d(0) + d(1) * 1024 + d(2) * 1048576 + (d(3) % 2) * 1073741824
        hi == (d(3) \div 2) + d(4) * 512 + d(5) * 524288 + d(6) * 536870912
    IN << hi, lo >>

\* round <<hi, lo>> to 53 significant bits, ties to even
RoundDouble(p) ==
    LET hi == p[1]
        lo == p[2]
        bits == IF hi = 0 THEN BitLen(lo) ELSE 31 + BitLen(hi)
        k == IF bits > 53 THEN bits - 53 ELSE 0
        u == Pow2(k)
        rem == lo % u
        base == lo - rem
        up == k > 0 /\ (rem > u \div 2 \/ (rem = u \div 2 /\ (lo \div u) % 2 = 1))
    IN IF ~up THEN << hi, base >>
       ELSE IF base = (RNG_mMinus1 - u) + 1 THEN << hi + 1, 0 >>
       ELSE << hi, base + u >>

\* <<hi, lo>> + c, exact
AddC(p, c) ==
    IF p[2] > RNG_mMinus1 - c THEN << p[1] + 1, (p[2] - (RNG_mMinus1 - c)) - 1 >>
    ELSE << p[1], p[2] + c >>

\* (a * seed + c) % m; each intermediate double is bound as a value, so
\* it is computed once
RNG_hash(seed) ==
    CHOOSE r \in {RoundDouble(sum)[2] :
                    sum \in {AddC(product, RNG_c) :
                        product \in {RoundDouble(exact) :
                            exact \in {Mul62(RNG_a, seed)}}}} : TRUE

\* <<q, r>> with k * d = q * M + r and 0 <= r < M, for 0 <= d < M, without
\* leaving 31 bits
\* one step of MulDivQR: from h = <<q, r>> for k \div 2 to <<q, r>> for k
MulDivStep(h, k, d, M) ==
    LET dbl == IF h[2] >= M - h[2] THEN << 2 * h[1] + 1, h[2] - (M - h[2]) >>
               ELSE << 2 * h[1], 2 * h[2] >>
    IN IF k % 2 = 0 THEN dbl
       ELSE IF dbl[2] >= M - d THEN << dbl[1] + 1, dbl[2] - (M - d) >>
       ELSE << dbl[1], dbl[2] + d >>

\* the half-way result is bound as a value, so it is computed once a level
RECURSIVE MulDivQR(_, _, _)
MulDivQR(k, d, M) ==
    IF k = 0 THEN << 0, 0 >>
    ELSE CHOOSE r \in {MulDivStep(h, k, d, M) : h \in {MulDivQR(k \div 2, d, M)}} : TRUE

\* Op applied to the value of v, which is computed once
Bind(v, Op(_)) == CHOOSE r \in {Op(x) : x \in {v}} : TRUE

\* RNG.scale: (2 * hash) / (m - 1) - 1, in millionths (truncated toward 0)
RNG_scale(hash) ==
    Bind(hash - (RNG_mMinus1 - hash),            \* 2 * hash - (m - 1)
         LAMBDA num :
            LET mag == IF Abs(num) = RNG_mMinus1 THEN 1000000
                       ELSE MulDivQR(1000000, Abs(num), RNG_mMinus1)[1]
            IN IF num < 0 THEN 0 - mag ELSE mag)


(***************************************************************************)
(* State processing: createInitialState, checkCollisions, tick, jump       *)
(***************************************************************************)
\* createInitialState with the seed left at 0 instead of RNG_SEED
createInitialStateNoSeed(templates) ==
    [ bird |-> [x |-> Birb_INITIAL_X, y |-> Birb_INITIAL_Y, vy |-> 0],
      pipes |-> << >>,
      pipeTemplates |-> templates,
      spawnedPipeTimes |-> << >>,
      gameTime |-> 0,
      nextPipeId |-> 0,
      lives |-> INITIAL_LIVES,
      rngSeed |-> 0,
      gameEnd |-> FALSE,
      score |-> 0 ]

createInitialState(templates) ==
    [ bird |-> [x |-> Birb_INITIAL_X, y |-> Birb_INITIAL_Y, vy |-> 0],
      pipes |-> << >>,
      pipeTemplates |-> templates,
      spawnedPipeTimes |-> << >>,
      gameTime |-> 0,
      nextPipeId |-> 0,
      lives |-> INITIAL_LIVES,
      rngSeed |-> RNG_SEED,
      gameEnd |-> FALSE,
      score |-> 0 ]

Includes(seq, v) == \E i \in 1..Len(seq) : seq[i] = v

\* the outcome of the pipe at index i, or of the first later pipe that hits
RECURSIVE pipeCollision(_, _, _, _)
pipeCollision(bird, pipes, rngSeed, i) ==
    IF i > Len(pipes)
    THEN [hasCollision |-> FALSE, bounceUp |-> FALSE, rngSeed |-> rngSeed]
    ELSE LET pipe == pipes[i]
             birdLeft == bird.x - Px(Birb_WIDTH) \div 2
             birdRight == bird.x + Px(Birb_WIDTH) \div 2
             birdTop == bird.y - Px(Birb_HEIGHT) \div 2
             birdBottom == bird.y + Px(Birb_HEIGHT) \div 2
             pipeLeft == pipe.x
             pipeRight == pipe.x + Px(PIPE_WIDTH)
             gapTop == SubN(pipe.gapY, HalfN(pipe.gapHeight))
             gapBottom == AddN(pipe.gapY, HalfN(pipe.gapHeight))
         IN IF birdRight >= pipeLeft /\ birdLeft <= pipeRight /\ LeqN(birdTop, gapTop)
            THEN [hasCollision |-> TRUE, bounceUp |-> FALSE,
                  rngSeed |-> RNG_hash(rngSeed)]
            ELSE IF birdRight >= pipeLeft /\ birdLeft <= pipeRight
                    /\ LeqN(gapBottom, birdBottom)
            THEN [hasCollision |-> TRUE, bounceUp |-> TRUE,
                  rngSeed |-> RNG_hash(rngSeed)]
            ELSE pipeCollision(bird, pipes, rngSeed, i + 1)

\* checkCollisions with the pipes looked at before the world boundaries
checkCollisionsPipesFirst(bird, pipes, rngSeed) ==
    LET birdTop == bird.y - Px(Birb_HEIGHT) \div 2
        birdBottom == bird.y + Px(Birb_HEIGHT) \div 2
        byPipe == pipeCollision(bird, pipes, rngSeed, 1)
    IN IF byPipe.hasCollision THEN byPipe
       ELSE IF birdTop <= 0
       THEN [hasCollision |-> TRUE, bounceUp |-> FALSE, rngSeed |-> RNG_hash(rngSeed)]
       ELSE IF birdBottom >= Px(CANVAS_HEIGHT)
       THEN [hasCollision |-> TRUE, bounceUp |-> TRUE, rngSeed |-> RNG_hash(rngSeed)]
       ELSE byPipe

checkCollisions(bird, pipes, rngSeed) ==
    LET birdTop == bird.y - Px(Birb_HEIGHT) \div 2
        birdBottom == bird.y + Px(Birb_HEIGHT) \div 2
    IN IF birdTop <= 0
       THEN [hasCollision |-> TRUE, bounceUp |-> FALSE, rngSeed |-> RNG_hash(rngSeed)]
       ELSE IF birdBottom >= Px(CANVAS_HEIGHT)
       THEN [hasCollision |-> TRUE, bounceUp |-> TRUE, rngSeed |-> RNG_hash(rngSeed)]
       ELSE pipeCollision(bird, pipes, rngSeed, 1)

\* pipesToSpawn with `template.time <= newGameTime` written as
\* `!(template.time > newGameTime)`, which is true of a NaN time
pipesToSpawnNotLater(s, newGameTime) ==
    SelectSeq(s.pipeTemplates,
              LAMBDA template : ~LtN(newGameTime, template.time)
                                /\ ~Includes(s.spawnedPipeTimes, template.time))

\* pipesToSpawn without its test of spawnedPipeTimes
pipesToSpawnAllDue(s, newGameTime) ==
    SelectSeq(s.pipeTemplates, LAMBDA template : LeqN(template.time, newGameTime))

\* pipesToSpawn: the templates that are due and whose time was not spawned
pipesToSpawn(s, newGameTime) ==
    SelectSeq(s.pipeTemplates,
              LAMBDA template : LeqN(template.time, newGameTime)
                                /\ ~Includes(s.spawnedPipeTimes, template.time))

\* the bounce with the two branches of its conditional exchanged
bounceVelocityExchanged(collision) ==
    LET randomValue == RNG_scale(collision.rngSeed)
        speed == Px(3) + (Abs(randomValue) * 4) \div 1000
    IN IF collision.bounceUp THEN speed ELSE 0 - speed

\* 3 + |randomValue| * 4, signed by the bounce direction
bounceVelocity(collision) ==
    LET randomValue == RNG_scale(collision.rngSeed)
        speed == Px(3) + (Abs(randomValue) * 4) \div 1000
    IN IF collision.bounceUp THEN 0 - speed ELSE speed

\* the filter of passedPipes without its test of pipe.passed
isPassingAgain(pipe, finalBird) == pipe.x + Px(PIPE_WIDTH) < finalBird.x

\* passedPipes, as the predicate its filter applies
isPassing(pipe, finalBird) == ~pipe.passed /\ pipe.x + Px(PIPE_WIDTH) < finalBird.x

\* the id of a spawned pipe when indexOf compares the templates by value
pipeIdByValue(nextPipeId, toSpawn, i) ==
    nextPipeId + (CHOOSE j \in 1..i :
                     toSpawn[j] = toSpawn[i] /\ \A k \in 1..(j - 1) : toSpawn[k] # toSpawn[i]) - 1

\* id: s.nextPipeId + pipesToSpawn.indexOf(template), for the template at
\* (1-based) index i of pipesToSpawn; the rows of the feed are distinct
\* objects and indexOf compares references, so the index found is i - 1
pipeId(nextPipeId, toSpawn, i) == nextPipeId + (i - 1)

\* the seed after a tick when it is advanced once more
newRngSeedHashed(collision) == RNG_hash(collision.rngSeed)

\* let newRngSeed = collision.rngSeed
newRngSeed(collision) == collision.rngSeed

\* allPipesNavigated with `template.time <= newGameTime` written as
\* `!(template.time > newGameTime)`, which is true of a NaN time
allPipesNavigatedNotLater(templates, newGameTime, scoredPipes) ==
    (\A i \in 1..Len(templates) : ~LtN(newGameTime, templates[i].time))
    /\ Len(scoredPipes) = 0

\* allPipesNavigated with some() in the place of every()
allPipesNavigatedSome(templates, newGameTime, scoredPipes) ==
    (\E i \in 1..Len(templates) : LeqN(templates[i].time, newGameTime))
    /\ Len(scoredPipes) = 0

\* allPipesNavigated without its test that no pipe is left
allPipesNavigatedNoClear(templates, newGameTime, scoredPipes) ==
    \A i \in 1..Len(templates) : LeqN(templates[i].time, newGameTime)

\* every template is due and no pipe is left
allPipesNavigated(templates, newGameTime, scoredPipes) ==
    (\A i \in 1..Len(templates) : LeqN(templates[i].time, newGameTime))
    /\ Len(scoredPipes) = 0

\* newPipes with the spawned pipes put in front of the live ones
newPipesPrepended(pipes, spawned) == spawned \o pipes

\* [...s.pipes, ...pipesToSpawn.map(...)]: the pipes of this tick go after
\* the pipes already in the game, in the order of their rows
newPipes(pipes, spawned) == pipes \o spawned

\* the clamp taken on the bird's edges instead of its y
clampYHalfHeight(newY) ==
    Max(Px(Birb_HEIGHT) \div 2,
        Min(Px(CANVAS_HEIGHT) - Px(Birb_HEIGHT) \div 2, newY))

\* Math.max(0, Math.min(Viewport.CANVAS_HEIGHT - Birb.HEIGHT, newY))
clampY(newY) == Max(0, Min(Px(CANVAS_HEIGHT) - Px(Birb_HEIGHT), newY))

\* passedPipes that counts nothing on a tick with a collision
passedPipesUnlessCollision(filteredPipes, finalBird, collision) ==
    IF collision.hasCollision
    THEN << >>
    ELSE SelectSeq(filteredPipes, LAMBDA pipe : isPassing(pipe, finalBird))

\* filteredPipes.filter(pipe => !pipe.passed && pipe.x + PIPE_WIDTH < finalBird.x):
\* the collision of the tick is in scope and is not read
passedPipes(filteredPipes, finalBird, collision) ==
    SelectSeq(filteredPipes, LAMBDA pipe : isPassing(pipe, finalBird))

\* the filter of filteredPipes dropping a pipe once the bird's x is reached
onScreenAhead(pipe) == pipe.x > Birb_INITIAL_X

\* .filter(pipe => pipe.x > -Constants.PIPE_WIDTH)
onScreen(pipe) == pipe.x > 0 - Px(PIPE_WIDTH)

\* gameEnd without the end of the course
gameEndLivesOnly(newLives, navigated) == newLives <= 0

\* gameEnd that waits for lives to fall below zero
gameEndBelowZero(newLives, navigated) == newLives < 0 \/ navigated

\* const gameEnd = newLives <= 0 || allPipesNavigated
gameEnd(newLives, navigated) == newLives <= 0 \/ navigated

\* the body of tick after its guard `if (s.gameEnd) return s`
tickRunning(s) ==
    LET newGameTime == s.gameTime + TICK_RATE_MS
        newVy == s.bird.vy + GRAVITY
        newY == s.bird.y + newVy
        toSpawn == pipesToSpawn(s, newGameTime)
        spawned ==
            [i \in 1..Len(toSpawn) |->
                [ id |-> pipeId(s.nextPipeId, toSpawn, i),
                  x |-> PIPE_SPAWN_X,
                  gapY |-> MulN(toSpawn[i].gapY, CANVAS_HEIGHT),
                  gapHeight |-> MulN(toSpawn[i].gapHeight, CANVAS_HEIGHT),
                  passed |-> FALSE ]]
        withSpawned == newPipes(s.pipes, spawned)
        movedPipes == [i \in 1..Len(withSpawned) |->
                          [withSpawned[i] EXCEPT !.x = @ - Px(PIPE_SPEED)]]
        filteredPipes == SelectSeq(movedPipes, onScreen)
        tentativeBird == [s.bird EXCEPT !.y = newY, !.vy = newVy]
    IN Bind(checkCollisions(tentativeBird, filteredPipes, s.rngSeed),
            LAMBDA collision :
        LET newLives == IF collision.hasCollision THEN s.lives - 1 ELSE s.lives
            finalBird ==
                IF collision.hasCollision
                THEN [s.bird EXCEPT
                        !.y = clampY(newY),
                        !.vy = bounceVelocity(collision)]
                ELSE tentativeBird
            passedCount == Len(passedPipes(filteredPipes, finalBird, collision))
            newScore == s.score + passedCount
            scoredPipes == [i \in 1..Len(filteredPipes) |->
                               IF isPassing(filteredPipes[i], finalBird)
                               THEN [filteredPipes[i] EXCEPT !.passed = TRUE]
                               ELSE filteredPipes[i]]
            ended == gameEnd(newLives,
                             allPipesNavigated(s.pipeTemplates, newGameTime, scoredPipes))
        IN [ s EXCEPT
               !.bird = finalBird,
               !.pipes = scoredPipes,
               !.spawnedPipeTimes = @ \o [i \in 1..Len(toSpawn) |-> toSpawn[i].time],
               !.gameTime = newGameTime,
               !.nextPipeId = @ + Len(toSpawn),
               !.lives = newLives,
               !.rngSeed = newRngSeed(collision),
               !.gameEnd = ended,
               !.score = newScore ])

\* tick without its guard on gameEnd
tickNoEndGuard(s) == tickRunning(s)

tick(s) == IF s.gameEnd THEN s ELSE tickRunning(s)

\* jump that adds the impulse to the bird's speed
jumpAdds(s) ==
    IF s.gameEnd THEN s
    ELSE [s EXCEPT !.bird.vy = @ + JUMP_VELOCITY]

jump(s) ==
    IF s.gameEnd THEN s
    ELSE [s EXCEPT !.bird.vy = JUMP_VELOCITY]

(***************************************************************************)
(* The streams of state$ and of the ghost replay.                          *)
(*                                                                         *)
(*   pipeTemplates        parsePipeTemplates(csvContents), fixed for a run *)
(*   s                    the accumulator of scan((state, fn) => fn(state))*)
(*   hasPrev              pairwise() holds a previous state of this game   *)
(*   paused               the value of paused$                             *)
(*   currentGamePositions the array of that name                           *)
(*   currentGameRecording the BehaviorSubject currentGameRecording$, as an *)
(*                        index into subjects                              *)
(*   subjects             the current value of every BehaviorSubject still *)
(*                        referenced (the published ones and the live one) *)
(*   streams              the accumulator of the scan in allGameStreams$:  *)
(*                        the published subjects, in publication order     *)
(*   gameTime             the value of gameTime$                           *)
(*   ghostBirds           the latest value of every ghost observable inside*)
(*                        combineLatest(ghostObservables)                  *)
(*   ghostOut             the ghost lists delivered to the subscriber in   *)
(*                        render() while the last event was handled        *)
(*   effects              the side effects of the last event, in the order *)
(*                        the handlers performed them                      *)
(*   event, applied       the last input event, and whether it passed the  *)
(*                        pause gate and reached the scan                  *)
(*   prev                 the accumulator as the last applied update       *)
(*                        function or the last restart found it (for an    *)
(*                        update, the state pairwise() pairs with s; for a *)
(*                        restart, the last state of the dropped game)     *)
(*   player, jumpsUsed    the environment: who presses Space, and how many *)
(*                        times so far                                     *)
(***************************************************************************)
VARIABLES pipeTemplates, s, hasPrev, paused, currentGamePositions,
          currentGameRecording, subjects, streams, gameTime, ghostBirds,
          ghostOut, effects, event, applied, prev, player, jumpsUsed

vars == << pipeTemplates, s, hasPrev, paused, currentGamePositions,
           currentGameRecording, subjects, streams, gameTime, ghostBirds,
           ghostOut, effects, event, applied, prev, player, jumpsUsed >>

(***************************************************************************)
(* Bounds of the environment                                               *)
(***************************************************************************)
\* Space presses of a free player over a whole run
MaxJumps == 1
\* a free player presses Space only on every JumpEvery-th tick of a game,
\* or once the game has ended
JumpEvery == 30
\* no restart once this many recordings are published
MaxSealed == 2
\* ticks applied to one game
MaxTicks == 390
\* a scripted player presses R after a game has ended until this many
\* recordings are published
MaxReplays == 3

(***************************************************************************)
(* Ghost birds                                                             *)
(***************************************************************************)
\* the lookup without Math.abs
findMatchingSigned(gamePositions, currentTime) ==
    LET matching == {i \in 1..Len(gamePositions) :
                        gamePositions[i].time - currentTime < Tolerance}
    IN IF matching = {} THEN 0
       ELSE CHOOSE i \in matching : \A j \in matching : i <= j

\* gamePositions.find(pos => Math.abs(pos.time - currentTime) < 0.2): the
\* index of the first position that matches, 0 when none does
findMatching(gamePositions, currentTime) ==
    LET matching == {i \in 1..Len(gamePositions) :
                        Abs(gamePositions[i].time - currentTime) < Tolerance}
    IN IF matching = {} THEN 0
       ELSE CHOOSE i \in matching : \A j \in matching : i <= j

\* the value createGhostFromRecording maps currentTime to
createGhostFromRecording(gamePositions, opacity, currentTime) ==
    LET m == findMatching(gamePositions, currentTime)
    IN IF m # 0
       THEN [x |-> gamePositions[m].x, y |-> gamePositions[m].y,
             visible |-> TRUE, opacity |-> opacity]
       ELSE [x |-> 0, y |-> 0, visible |-> FALSE, opacity |-> opacity]

\* 0.2 + (index % 5) * 0.1, in tenths; index is 0-based
ghostOpacity(index) == 2 + (index % OpacityCycle)

\* what combineLatest(ghostObservables) emits when createGhostBirds$ switches
\* to the recordings strs (values subj) at cursor value t
subscribeGhosts(strs, subj, t) ==
    [i \in 1..Len(strs) |->
        createGhostFromRecording(subj[strs[i]], ghostOpacity(i - 1), t)]

\* gameTime$.next(t): every ghost observable maps t in subscription order and
\* combineLatest emits after each of them
RECURSIVE cursorEmissions(_, _, _, _, _)
cursorEmissions(latest, strs, subj, t, i) ==
    IF i > Len(strs) THEN << >>
    ELSE LET upd == [latest EXCEPT ![i] =
                        createGhostFromRecording(subj[strs[i]], ghostOpacity(i - 1), t)]
         IN << upd >> \o cursorEmissions(upd, strs, subj, t, i + 1)

Last(seq, default) == IF Len(seq) = 0 THEN default ELSE seq[Len(seq)]

(***************************************************************************)
(* The environment: obstacle template feeds and players                    *)
(***************************************************************************)
\* one CSV row: gap centre and gap height in thousandths of the canvas
\* height, spawn time in milliseconds
Template(gapY, gapHeight, time) == [gapY |-> gapY, gapHeight |-> gapHeight, time |-> time]

\* the feeds of a free run: the empty feed, and the one-row feed of the
\* scenario (gap centre 0.5, gap height 0.3, time 0)
TemplateSets == { << >>, << Template(500, 300, 0) >> }

\* a free player presses Space, P and R at will, within the bounds above
FreePlayer == [free |-> TRUE, p1 |-> 0, switch |-> 0, p2 |-> 0]

\* a scripted player presses Space before every p1-th tick until tick
\* `switch`, and before every p2-th tick from then on (0: never)
Script(p1, switch, p2) == [free |-> FALSE, p1 |-> p1, switch |-> switch, p2 |-> p2]

tickNo(st) == st.gameTime \div TICK_RATE_MS

JumpDue(pl, k) ==
    IF k < pl.switch THEN pl.p1 > 0 /\ k % pl.p1 = 0
    ELSE pl.p2 > 0 /\ (k - pl.switch) % pl.p2 = 0

(***************************************************************************)
(* Init: state$ is subscribed (startWith(null) has run the reset tap and   *)
(* switchMap has built the first game), render() has subscribed to         *)
(* createGhostBirds$(), no event has arrived yet.                          *)
(***************************************************************************)
InitWith(templates, pl) ==
    /\ pipeTemplates = templates
    /\ s = createInitialState(templates)
    /\ hasPrev = FALSE
    /\ paused = FALSE
    /\ currentGamePositions = << >>
    /\ currentGameRecording = 1
    /\ subjects = << << >> >>
    /\ streams = << >>
    /\ gameTime = 0
    /\ ghostBirds = << >>
    /\ ghostOut = << >>
    /\ effects = << >>
    /\ event = "start"
    /\ applied = FALSE
    /\ prev = createInitialState(templates)
    /\ player = pl
    /\ jumpsUsed = 0

Init == \E templates \in TemplateSets : InitWith(templates, FreePlayer)

(***************************************************************************)
(* An update function that passed the pause gate: scan, the recorder tap,  *)
(* pairwise, the publishing tap, map, and the subscriber render().         *)
(***************************************************************************)
\* the recorder tap with its test of gameEnd inverted
recordsEnded(curr) == curr.gameEnd

\* the recorder tap without its test of gameEnd
recordsAlways(curr) == TRUE

\* the recorder tap records the state curr
records(curr) == ~curr.gameEnd

\* the publishing tap without its test of the two gameEnd flags
publishesAnyPair(hadPrev, before, curr) == hadPrev

\* the publishing tap publishes on the pair [before, curr]
publishes(hadPrev, before, curr) == hadPrev /\ ~before.gameEnd /\ curr.gameEnd

Update(curr) ==
    /\ s' = curr
    /\ prev' = s
    /\ applied' = TRUE
    /\ hasPrev' = TRUE
    \* tap: gameTime$.next(s.gameTime), then record the position while the
    \* game is running
    /\ gameTime' = s'.gameTime
    /\ currentGamePositions' =
          IF records(s')
          THEN Append(currentGamePositions,
                      [x |-> s'.bird.x, y |-> s'.bird.y, time |-> s'.gameTime])
          ELSE currentGamePositions
    /\ subjects' = IF records(s')
                   THEN [subjects EXCEPT ![currentGameRecording] = currentGamePositions']
                   ELSE subjects
    \* pairwise, then the tap that publishes the recording
    /\ streams' = IF publishes(hasPrev, s, s')
                  THEN Append(streams, currentGameRecording)
                  ELSE streams
    \* the ghost lists delivered on the way: one per ghost observable for the
    \* new cursor value, one if a published subject emitted, one if a
    \* recording was published
    /\ ghostOut' =
          cursorEmissions(ghostBirds, streams, subjects, s'.gameTime, 1)
          \o (IF records(s') /\ Includes(streams, currentGameRecording)
              THEN << subscribeGhosts(streams, subjects', s'.gameTime) >>
              ELSE << >>)
          \o (IF publishes(hasPrev, s, s')
              THEN << subscribeGhosts(streams', subjects', s'.gameTime) >>
              ELSE << >>)
    /\ ghostBirds' = Last(ghostOut', ghostBirds)
    /\ effects' = << "state", "cursor" >>
                  \o [i \in 1..Len(streams) |-> "ghosts"]
                  \o (IF records(s') THEN << "append" >> ELSE << >>)
                  \o (IF records(s') /\ Includes(streams, currentGameRecording)
                      THEN << "ghosts" >> ELSE << >>)
                  \o (IF publishes(hasPrev, s, s')
                      THEN << "publish", "ghosts" >> ELSE << >>)
                  \o (IF hasPrev THEN << "render" >> ELSE << >>)
    /\ UNCHANGED << pipeTemplates, paused, currentGameRecording, player >>

\* updates$ without the filter on paused
gateOpen(isPaused) == TRUE

\* withLatestFrom(paused$), filter(([, paused]) => !paused): the update
\* function passes the gate
passesGate(isPaused) == ~isPaused

\* the gate drops the update function
Dropped ==
    /\ applied' = FALSE
    /\ effects' = << >>
    /\ ghostOut' = << >>
    /\ UNCHANGED << pipeTemplates, s, hasPrev, paused, currentGamePositions,
                    currentGameRecording, subjects, streams, gameTime, ghostBirds,
                    prev, player >>

\* interval(TICK_RATE_MS) fires
Tick ==
    /\ tickNo(s) < MaxTicks
    /\ player.free \/ ~JumpDue(player, tickNo(s)) \/ event = "jump"
    /\ event' = "tick"
    /\ jumpsUsed' = jumpsUsed
    /\ IF passesGate(paused) THEN Update(tick(s)) ELSE Dropped

\* keydown Space
Jump ==
    /\ IF player.free
       THEN jumpsUsed < MaxJumps /\ (tickNo(s) % JumpEvery = 0 \/ s.gameEnd)
       ELSE JumpDue(player, tickNo(s)) /\ event # "jump" /\ ~s.gameEnd
    /\ event' = "jump"
    /\ jumpsUsed' = IF player.free THEN jumpsUsed + 1 ELSE jumpsUsed
    /\ IF passesGate(paused) THEN Update(jump(s)) ELSE Dropped

\* keydown P
TogglePause ==
    /\ player.free
    /\ event' = "pause"
    /\ paused' = ~paused
    /\ applied' = FALSE
    /\ effects' = << >>
    /\ ghostOut' = << >>
    /\ UNCHANGED << pipeTemplates, s, hasPrev, currentGamePositions,
                    currentGameRecording, subjects, streams, gameTime, ghostBirds,
                    prev, player, jumpsUsed >>

\* the state the updates fold over after a restart if the running game
\* were kept (exhaustMap) instead of dropped
exhaustMap(running, fresh) == running

\* switchMap(() => ... scan(..., initialState)): the running game is
\* unsubscribed and the updates fold over the state of the new one
switchMap(running, fresh) == fresh

\* the restart tap without its gameTime$.next(0)
cursorKept(cursor) == cursor

\* gameTime$.next(0) in the tap of gameStream$
cursorReset(cursor) == 0

\* the pause flag of a new game if KeyR did not reach paused$
pausedShared(isPaused) == isPaused

\* withLatestFrom(paused$) in the new game subscribes paused$ anew:
\* startWith("reset") through scan(..., false) gives false, whatever the
\* flag of the dropped game was
pausedOfNewGame(isPaused) == FALSE

\* keydown R: paused$ is reset, the tap of gameStream$ resets the recorder
\* and the cursor, switchMap drops the running game and builds a new one
\* (its gate open: "resume" when the dropped game was paused)
Restart ==
    /\ IF player.free THEN Len(streams) < MaxSealed
       ELSE s.gameEnd /\ Len(streams) < MaxReplays
    /\ LET fresh == Includes(streams, currentGameRecording)
       IN /\ event' = "restart"
          /\ paused' = pausedOfNewGame(paused)
          /\ currentGamePositions' = << >>
          /\ currentGameRecording' =
                IF fresh THEN Len(subjects) + 1 ELSE currentGameRecording
          /\ subjects' = IF fresh THEN Append(subjects, << >>)
                         ELSE [subjects EXCEPT ![currentGameRecording] = << >>]
          /\ gameTime' = cursorReset(gameTime)
          /\ ghostOut' = cursorEmissions(ghostBirds, streams, subjects, gameTime', 1)
          /\ ghostBirds' = Last(ghostOut', ghostBirds)
          /\ s' = switchMap(s, createInitialState(pipeTemplates))
          /\ prev' = s
          /\ hasPrev' = FALSE
          /\ applied' = FALSE
          /\ effects' = << "reset", "cursor" >> \o [i \in 1..Len(streams) |-> "ghosts"]
                        \o << "switch" >>
                        \o (IF paused /\ ~paused' THEN << "resume" >> ELSE << >>)
          /\ UNCHANGED << pipeTemplates, streams, player, jumpsUsed >>

Next == Tick \/ Jump \/ TogglePause \/ Restart

Spec == Init /\ [][Next]_vars

(***************************************************************************)
(* Scripted runs: one game over a longer course, Space pressed by a        *)
(* script, no pause and no restart.  The handlers are the ones above.      *)
(***************************************************************************)
CourseTemplates ==
    { << Template(500, 300, 0) >>,
      << Template(700, 300, 0) >>,
      << Template(300, 200, 0), Template(700, 200, 0) >>,
      << Template(500, 300, 0), Template(500, 300, 0) >>,
      << Template(500, 300, 0), Template(500, 400, 1000) >>,
      << Template(500, 300, 1000), Template(400, 300, 10) >>,
      << Template(500, 300, NaN) >>,
      << Template(NaN, 300, 0) >>,
      << Template(500, NaN, 0), Template(500, 300, 0) >>,
      << Template(0, 50, 0) >>,           \* a 20 px gap across the top edge
      << Template(500, 300, 10), Template(400, 300, 0) >>,  \* rows not in time order
      << Template(500, 300, 0), Template(500, 300, NaN) >>, \* a row that is never due
      << >> }                             \* a CSV with only its header

Scripts ==
    { Script(0, 0, 0),        \* never
      Script(0, 0, 26),       \* hover
      Script(0, 0, 6),        \* climb to the top of the world
      Script(26, 180, 0),     \* hover, then fall
      Script(26, 130, 8),     \* hover, then climb
      Script(26, 118, 30),    \* hover, then sink onto the pipe as it is passed
      Script(26, 109, 17) }   \* hover, then rise to the top as it is passed

InitCourse ==
    \E templates \in CourseTemplates : \E pl \in Scripts : InitWith(templates, pl)

NextCourse == Tick \/ Jump

SpecCourse == InitCourse /\ [][NextCourse]_vars

\* interval(TICK_RATE_MS) keeps firing and the script keeps pressing Space:
\* an update that is due is eventually delivered
SpecCourseFair == SpecCourse /\ WF_vars(NextCourse)

(***************************************************************************)
(* Replays: a scripted player plays the same script game after game,       *)
(* pressing R once a game has ended, so that later games run beside the    *)
(* ghosts of the earlier ones.                                             *)
(***************************************************************************)
InitReplay ==
    \E templates \in TemplateSets : \E pl \in Scripts : InitWith(templates, pl)

NextReplay == Tick \/ Jump \/ Restart

SpecReplay == InitReplay /\ [][NextReplay]_vars

(***************************************************************************)
(* Properties                                                              *)
(***************************************************************************)
Count(seq, v) == Cardinality({i \in 1..Len(seq) : seq[i] = v})
IndexOf(seq, v) == IF Includes(seq, v)
                   THEN CHOOSE i \in 1..Len(seq) :
                            seq[i] = v /\ \A j \in 1..(i - 1) : seq[j] # v
                   ELSE 0
\* the last event was an update function of that kind and it reached the scan
Did(kind) == applied /\ event = kind

\* C1: once a state has gameEnd = true, tick and jump return a state equal
\* to their input in every field (bird, pipes, spawnedPipeTimes, gameTime,
\* nextPipeId, lives, rngSeed, score, gameEnd).
C1_EndedIsFrozen ==
    (applied /\ prev.gameEnd) =>
        /\ s = prev
        /\ s.bird = prev.bird /\ s.pipes = prev.pipes
        /\ s.spawnedPipeTimes = prev.spawnedPipeTimes
        /\ s.gameTime = prev.gameTime /\ s.nextPipeId = prev.nextPipeId
        /\ s.lives = prev.lives /\ s.rngSeed = prev.rngSeed
        /\ s.score = prev.score /\ s.gameEnd

\* a tick was applied to a game that had ended with no lives left
C1_Witness == Did("tick") /\ prev.gameEnd /\ prev.lives = 0 /\ prev.gameTime > 0

\* C2: every game that reaches gameEnd = true has its recording published
\* to the replay synchronizer exactly once, for every template feed.
C2_EndedIsPublishedOnce ==
    s.gameEnd => Count(streams, currentGameRecording) = 1

\* C3: a restart of a game that has not ended publishes no recording for
\* it: the published recordings are the same after the restart as before,
\* and the dropped game's recording is not among them.
C3_RestartPublishesNothing ==
    [][ (event' = "restart" /\ ~s.gameEnd) =>
            /\ streams' = streams
            /\ Len(streams') = Len(streams)
            /\ ~Includes(streams, currentGameRecording) ]_vars

\* a game that had run and not ended was restarted while a recording of an
\* earlier game was published
C3_Witness ==
    /\ event = "restart" /\ ~prev.gameEnd /\ prev.gameTime > 0
    /\ Len(streams) >= 1

\* C4: for every processed update the effects come in the order state
\* update, recorder append, cursor advance, ghost recomputation.
C4_EffectOrder ==
    (applied /\ Includes(effects, "append")) =>
        /\ IndexOf(effects, "state") < IndexOf(effects, "append")
        /\ IndexOf(effects, "append") < IndexOf(effects, "cursor")
        /\ \A i \in 1..Len(effects) :
              effects[i] = "ghosts" => IndexOf(effects, "cursor") < i

\* C5: when the cursor equals the time of a sample of a published
\* recording, that recording's ghost has the x and y of that sample.
C5_GhostAtRecordedTime ==
    \A i \in 1..Len(streams) :
        \A k \in 1..Len(subjects[streams[i]]) :
            subjects[streams[i]][k].time = gameTime =>
                /\ ghostBirds[i].x = subjects[streams[i]][k].x
                /\ ghostBirds[i].y = subjects[streams[i]][k].y

\* some sample of the recording lies within the tolerance of time t
Near(recording, t) ==
    \E k \in 1..Len(recording) : Abs(recording[k].time - t) < Tolerance

\* C6: for every published recording and every cursor value the ghost is
\* visible iff the recording has a sample within 200 ms of the cursor, and
\* is {x: 0, y: 0, visible: false} otherwise.  (No sample is ever at exactly
\* 200 ms, so "within" reads the same with < and with <=.)
C6_VisibleIffNear ==
    /\ Len(ghostBirds) = Len(streams)
    /\ \A i \in 1..Len(streams) :
          /\ ghostBirds[i].visible <=> Near(subjects[streams[i]], gameTime)
          /\ ~Near(subjects[streams[i]], gameTime) =>
                /\ ghostBirds[i].x = 0 /\ ghostBirds[i].y = 0
                /\ ghostBirds[i].visible = FALSE
          /\ \A k \in 1..Len(subjects[streams[i]]) :
                Abs(subjects[streams[i]][k].time - gameTime) # Tolerance

\* the cursor has moved more than the tolerance past every sample of a
\* published, non-empty recording, and its ghost is hidden
C6_Witness ==
    \E i \in 1..Len(streams) :
        /\ Len(subjects[streams[i]]) > 0
        /\ ~ghostBirds[i].visible
        /\ gameTime > Tolerance

\* C7: while paused, a tick or jump changes nothing of the game (no field of
\* the state, so neither gameTime, score nor the pipes; nor the cursor and
\* the recording); the dropped events are not queued: a tick that is
\* applied advances gameTime by exactly one tick period.
C7_PauseGate ==
    [][ /\ (paused /\ event' \in {"tick", "jump"}) =>
              /\ ~applied'
              /\ s' = s /\ s'.gameTime = s.gameTime /\ s'.score = s.score
              /\ s'.pipes = s.pipes
              /\ gameTime' = gameTime
              /\ currentGamePositions' = currentGamePositions
              /\ paused'
        /\ (~paused /\ event' = "tick" /\ ~s.gameEnd) =>
              s'.gameTime = s.gameTime + TICK_RATE_MS ]_vars

\* a tick was dropped in the middle of a running game
C7_Witness ==
    /\ paused /\ event = "tick" /\ ~applied
    /\ s.gameTime > 0 /\ ~s.gameEnd

\* the side of the world or of a pipe that the bird, moved by one tick of
\* gravity from `before`, hits first among the pipes of `after`: top of the
\* world, bottom of the world, then the pipes in stored order
HitSide(before, after) ==
    LET y == before.bird.y + before.bird.vy + GRAVITY
        top == y - Px(Birb_HEIGHT) \div 2
        bottom == y + Px(Birb_HEIGHT) \div 2
        left == before.bird.x - Px(Birb_WIDTH) \div 2
        right == before.bird.x + Px(Birb_WIDTH) \div 2
        gapTop(i) == SubN(after.pipes[i].gapY, HalfN(after.pipes[i].gapHeight))
        gapBottom(i) == AddN(after.pipes[i].gapY, HalfN(after.pipes[i].gapHeight))
        hitting == {i \in 1..Len(after.pipes) :
                       /\ right >= after.pipes[i].x
                       /\ left <= after.pipes[i].x + Px(PIPE_WIDTH)
                       /\ LeqN(top, gapTop(i)) \/ LeqN(gapBottom(i), bottom)}
        first == CHOOSE i \in hitting : \A j \in hitting : i <= j
    IN IF top <= 0 THEN "top"
       ELSE IF bottom >= Px(CANVAS_HEIGHT) THEN "bottom"
       ELSE IF hitting = {} THEN "none"
       ELSE IF LeqN(top, gapTop(first)) THEN "upper"
       ELSE "lower"

\* the last event was a tick that resolved a collision
Collided == Did("tick") /\ s.lives < prev.lives

\* C9: on every tick that resolves a collision the bird's vertical speed has
\* a magnitude in [3, 7]; it is negative (upward) after a collision with the
\* bottom of the world or the lower half of a pipe, positive (downward)
\* after one with the top of the world or the upper half of a pipe.
C9_BounceBounds ==
    Collided =>
        /\ Abs(s.bird.vy) >= Px(3) /\ Abs(s.bird.vy) <= Px(7)
        /\ HitSide(prev, s) \in {"top", "bottom", "upper", "lower"}
        /\ HitSide(prev, s) \in {"bottom", "lower"} => s.bird.vy < 0
        /\ HitSide(prev, s) \in {"top", "upper"} => s.bird.vy > 0

\* a collision with the upper half of a pipe was resolved
C9_Witness == Collided /\ HitSide(prev, s) = "upper"

\* the pipes of `before` that a tick newly passes: not yet marked, still
\* active after moving, and their right edge then left of the bird's x
NewlyPassed(before) ==
    {i \in 1..Len(before.pipes) :
        /\ ~before.pipes[i].passed
        /\ before.pipes[i].x - Px(PIPE_SPEED) > 0 - Px(PIPE_WIDTH)
        /\ before.pipes[i].x - Px(PIPE_SPEED) + Px(PIPE_WIDTH) < before.bird.x}

\* C10: across every tick the score never decreases and grows by exactly
\* the number of active pipes not yet marked passed whose right edge is,
\* after the tick's movement, left of the bird's x; a pipe counts once: it
\* is marked when it is counted and a marked pipe stays marked.
C10_ScoreCountsNewlyPassed ==
    (Did("tick") /\ ~prev.gameEnd) =>
        /\ s.score >= prev.score
        /\ s.score = prev.score + Cardinality(NewlyPassed(prev))
        /\ \A i \in 1..Len(prev.pipes) : \A j \in 1..Len(s.pipes) :
              s.pipes[j].id = prev.pipes[i].id =>
                 (s.pipes[j].passed <=> (prev.pipes[i].passed \/ i \in NewlyPassed(prev)))
        /\ \A j \in 1..Len(s.pipes) :
              (\A i \in 1..Len(prev.pipes) : prev.pipes[i].id # s.pipes[j].id)
                 => ~s.pipes[j].passed

\* one tick passed two pipes at once
C10_Witness == Did("tick") /\ s.score = prev.score + 2

\* the scenario: seed 1234, the one template (gap centre 0.5, gap height
\* 0.3, time 0), the bird starting centred with 3 lives, Space never pressed
Scenario11 ==
    /\ pipeTemplates = << Template(500, 300, 0) >>
    /\ player = Script(0, 0, 0)

\* C11 (as stated): in the scenario the bird's y grows on every tick until
\* its first collision, that collision is with the lower half of the pipe,
\* and after it lives = 2 and the vertical speed has a magnitude in [3, 7].
C11_FirstCollisionLowerPipe ==
    (Scenario11 /\ Did("tick") /\ prev.lives = INITIAL_LIVES) =>
        IF s.lives = prev.lives
        THEN s.bird.y > prev.bird.y
        ELSE /\ HitSide(prev, s) = "lower"
             /\ s.lives = 2
             /\ Abs(s.bird.vy) >= Px(3) /\ Abs(s.bird.vy) <= Px(7)

\* C11 (amended): in the scenario the bird's y grows on every tick until
\* its first collision, that collision is with the bottom of the world (the
\* pipe has not reached the bird yet), and after it lives = 2 and the
\* vertical speed has a magnitude in [3, 7].
C11_FirstCollisionBottom ==
    (Scenario11 /\ Did("tick") /\ prev.lives = INITIAL_LIVES) =>
        IF s.lives = prev.lives
        THEN s.bird.y > prev.bird.y
        ELSE /\ HitSide(prev, s) = "bottom"
             /\ s.lives = 2
             /\ Abs(s.bird.vy) >= Px(3) /\ Abs(s.bird.vy) <= Px(7)

\* the first collision of the scenario has been resolved
C11_Witness == Scenario11 /\ Collided /\ prev.lives = INITIAL_LIVES

\* a template time t becomes due on the tick from `before` to `after`: the
\* first tick whose new gameTime is >= t
Due(t, before, after) ==
    LeqN(t, after.gameTime) /\ (before.gameTime = 0 \/ t > before.gameTime)

\* the number of rows of the feed with spawn time t
Rows(templates, t) == Cardinality({j \in 1..Len(templates) : templates[j].time = t})

\* C12: every template whose spawn time is a number is made into a pipe
\* exactly once, on the first tick whose new gameTime is >= its time; none
\* is made twice, none that is due is skipped, rows sharing a time included.
C12_SpawnedOnceWhenDue ==
    /\ \A i \in 1..Len(pipeTemplates) :
          ~IsNaN(pipeTemplates[i].time) =>
              Count(s.spawnedPipeTimes, pipeTemplates[i].time) =
                  IF s.gameTime > 0 /\ pipeTemplates[i].time <= s.gameTime
                  THEN Rows(pipeTemplates, pipeTemplates[i].time)
                  ELSE 0
    /\ s.nextPipeId = Len(s.spawnedPipeTimes)
    /\ (Did("tick") /\ ~prev.gameEnd) =>
          LET due == SelectSeq(pipeTemplates, LAMBDA tpl : Due(tpl.time, prev, s))
              made == SelectSeq(s.pipes, LAMBDA pipe : pipe.id >= prev.nextPipeId)
          IN /\ Len(made) = Len(due)
             /\ s.nextPipeId = prev.nextPipeId + Len(due)
             /\ \A k \in 1..Len(due) :
                   /\ made[k].gapY = MulN(due[k].gapY, CANVAS_HEIGHT)
                   /\ made[k].gapHeight = MulN(due[k].gapHeight, CANVAS_HEIGHT)
                   /\ made[k].x = PIPE_SPAWN_X - Px(PIPE_SPEED)
    /\ (Did("jump") \/ (Did("tick") /\ prev.gameEnd)) =>
          s.nextPipeId = prev.nextPipeId /\ Len(s.pipes) = Len(prev.pipes)

\* two rows with the same spawn time were both made into pipes by one tick
C12_Witness ==
    /\ Did("tick") /\ prev.nextPipeId = 0
    /\ s.spawnedPipeTimes = << 0, 0 >> /\ Len(s.pipes) = 2

\* C13: in every reachable state the ids of the pipes are pairwise
\* distinct, nextPipeId is greater than every one of them, and ids are
\* handed out in strictly increasing order over the whole game: the pipes
\* a tick adds take the ids nextPipeId, nextPipeId + 1, ... in stored
\* order, and nextPipeId never goes back.
C13_PipeIds ==
    /\ \A i, j \in 1..Len(s.pipes) : i # j => s.pipes[i].id # s.pipes[j].id
    /\ \A i \in 1..Len(s.pipes) : s.pipes[i].id < s.nextPipeId
    /\ \A i, j \in 1..Len(s.pipes) : i < j => s.pipes[i].id < s.pipes[j].id
    /\ applied =>
          /\ s.nextPipeId >= prev.nextPipeId
          /\ LET made == SelectSeq(s.pipes, LAMBDA pipe : pipe.id >= prev.nextPipeId)
             IN /\ Len(made) = s.nextPipeId - prev.nextPipeId
                /\ \A k \in 1..Len(made) : made[k].id = prev.nextPipeId + (k - 1)
          /\ \A i \in 1..Len(prev.pipes) : prev.pipes[i].id < prev.nextPipeId

\* two pipes spawned by different ticks are on the screen
C13_Witness ==
    /\ Len(s.pipes) = 2
    /\ s.pipes[1].x < s.pipes[2].x
    /\ s.pipes[1].id = 0 /\ s.pipes[2].id = 1

\* C14: a tick on a game that has not ended sets gameEnd = true iff the
\* resulting lives are 0, or every template's spawn time is <= the new
\* gameTime and the resulting pipe list is empty; otherwise gameEnd stays
\* false.
C14_EndCondition ==
    (Did("tick") /\ ~prev.gameEnd) =>
        /\ s.lives >= 0
        /\ s.gameEnd <=>
              \/ s.lives = 0
              \/ /\ \A i \in 1..Len(pipeTemplates) :
                       LeqN(pipeTemplates[i].time, s.gameTime)
                 /\ Len(s.pipes) = 0

\* a tick ended a game with lives left: every pipe was spawned, at least
\* one was passed, and the last one has left the screen
C14_Witness ==
    /\ Did("tick") /\ ~prev.gameEnd /\ s.gameEnd
    /\ s.lives > 0 /\ s.score > 0 /\ Len(prev.pipes) > 0

\* what the pipe alone does to a bird with the given edges: "upper" (the
\* bird is at or above the top of the gap), "lower" (at or below its
\* bottom), "none" (no horizontal overlap, or inside the gap)
PipeSide(left, right, top, bottom, pipe) ==
    IF ~(right >= pipe.x /\ left <= pipe.x + Px(PIPE_WIDTH)) THEN "none"
    ELSE IF LeqN(top, SubN(pipe.gapY, HalfN(pipe.gapHeight))) THEN "upper"
    ELSE IF LeqN(AddN(pipe.gapY, HalfN(pipe.gapHeight)), bottom) THEN "lower"
    ELSE "none"

\* the sides of the pipes of `after` for the bird of `before` moved by one
\* tick of gravity
PipeSides(before, after) ==
    LET y == before.bird.y + before.bird.vy + GRAVITY
    IN [i \in 1..Len(after.pipes) |->
           PipeSide(before.bird.x - Px(Birb_WIDTH) \div 2,
                    before.bird.x + Px(Birb_WIDTH) \div 2,
                    y - Px(Birb_HEIGHT) \div 2,
                    y + Px(Birb_HEIGHT) \div 2,
                    after.pipes[i])]

TentativeTop(before) == before.bird.y + before.bird.vy + GRAVITY - Px(Birb_HEIGHT) \div 2
TentativeBottom(before) == before.bird.y + before.bird.vy + GRAVITY + Px(Birb_HEIGHT) \div 2

\* C15: collisions are looked for in the order top of the world, bottom of
\* the world, then the pipes in stored (spawn) order, and the first match
\* decides: a bird off the top or the bottom of the world bounces as from
\* that boundary even when it overlaps a pipe that would bounce it the
\* other way, and of several pipes it hits the earliest spawned decides.
C15_FirstMatchWins ==
    Collided =>
        LET sides == PipeSides(prev, s)
            hit == {i \in 1..Len(s.pipes) : sides[i] # "none"}
        IN /\ TentativeTop(prev) <= 0 => s.bird.vy > 0
           /\ (TentativeTop(prev) > 0 /\ TentativeBottom(prev) >= Px(CANVAS_HEIGHT))
                 => s.bird.vy < 0
           /\ (TentativeTop(prev) > 0 /\ TentativeBottom(prev) < Px(CANVAS_HEIGHT)) =>
                 /\ hit # {}
                 /\ LET e == CHOOSE i \in hit : \A j \in hit : s.pipes[i].id <= s.pipes[j].id
                    IN /\ sides[e] = "upper" => s.bird.vy > 0
                       /\ sides[e] = "lower" => s.bird.vy < 0

\* the bird hit two pipes at once that bounce it in opposite directions
C15_TwoPipesWitness ==
    Collided /\ TentativeTop(prev) > 0 /\ TentativeBottom(prev) < Px(CANVAS_HEIGHT)
    /\ \E i, j \in 1..Len(s.pipes) :
          /\ s.pipes[i].id < s.pipes[j].id
          /\ PipeSides(prev, s)[i] # "none" /\ PipeSides(prev, s)[j] # "none"
          /\ PipeSides(prev, s)[i] # PipeSides(prev, s)[j]

\* the bird was off the world while it overlapped a pipe that would have
\* bounced it the other way
C15_Witness ==
    Collided
    /\ \/ TentativeTop(prev) <= 0 /\ \E i \in 1..Len(s.pipes) : PipeSides(prev, s)[i] = "lower"
       \/ /\ TentativeTop(prev) > 0 /\ TentativeBottom(prev) >= Px(CANVAS_HEIGHT)
          /\ \E i \in 1..Len(s.pipes) : PipeSides(prev, s)[i] = "upper"

\* C16: the seed is advanced exactly once, to hash(seed), by a tick that
\* resolves a collision and is left unchanged by one that resolves none, so
\* a tick changes rngSeed iff it resolves a collision (a jump never does).
\* The first two values after 1234 are those of the source's double
\* arithmetic.
C16_SeedAdvancesOnCollision ==
    /\ (Did("tick") /\ ~prev.gameEnd) =>
          /\ (HitSide(prev, s) # "none") <=> (s.lives = prev.lives - 1)
          /\ (HitSide(prev, s) = "none") <=> (s.lives = prev.lives)
          /\ (s.lives < prev.lives) <=> (s.rngSeed # prev.rngSeed)
          /\ s.lives < prev.lives => s.rngSeed = RNG_hash(prev.rngSeed)
          /\ s.lives = prev.lives => s.rngSeed = prev.rngSeed
          /\ (s.lives < prev.lives /\ prev.rngSeed = RNG_SEED) => s.rngSeed = 233191843
          /\ (s.lives < prev.lives /\ prev.rngSeed = 233191843) => s.rngSeed = 128476320
    /\ (Did("jump") \/ (Did("tick") /\ prev.gameEnd)) => s.rngSeed = prev.rngSeed

\* a second collision advanced a seed that a first one had advanced
C16_Witness == Collided /\ prev.rngSeed = 233191843 /\ s.rngSeed = 128476320

\* the list is one snapshot per published recording, in publication order:
\* entry i carries the opacity of index i - 1 and the position recording i
\* gives at one of the cursor values t1, t2
OnePerRecording(list, strs, subj, t1, t2) ==
    /\ Len(list) = Len(strs)
    /\ \A i \in 1..Len(strs) :
          \/ list[i] = createGhostFromRecording(subj[strs[i]], ghostOpacity(i - 1), t1)
          \/ list[i] = createGhostFromRecording(subj[strs[i]], ghostOpacity(i - 1), t2)

\* C17: on every advance of the cursor the ghost lists delivered hold
\* exactly one snapshot per published recording, in publication order, and
\* none for the live recording while it is unpublished; the number of
\* published recordings only grows, by exactly one per game that ends, and
\* a restart leaves it as it is.
C17_OneGhostPerSealedRecording ==
    [][ /\ (event' \in {"tick", "jump", "restart"} /\ gameTime' # gameTime) =>
              \A k \in 1..Len(ghostOut') :
                  \/ OnePerRecording(ghostOut'[k], streams, subjects, gameTime, gameTime')
                  \/ OnePerRecording(ghostOut'[k], streams', subjects', gameTime, gameTime')
        /\ ~s'.gameEnd => ~Includes(streams', currentGameRecording')
        /\ streams' = streams \/ streams' = Append(streams, currentGameRecording)
        /\ (~s.gameEnd /\ s'.gameEnd) <=> (Len(streams') = Len(streams) + 1)
        /\ event' = "restart" => streams' = streams ]_vars

\* the number of ghost lists delivered in answer to gameTime$.next: the
\* "ghosts" effects that directly follow "cursor"
CursorLists(eff) ==
    LET c == IndexOf(eff, "cursor")
    IN Cardinality({i \in (c + 1)..Len(eff) :
                       \A j \in (c + 1)..i : eff[j] = "ghosts"})

\* C18: for each advance of the cursor exactly one ghost list is delivered
\* to the subscriber in render(), however many recordings are published.
C18_OneListPerCursorAdvance ==
    (Did("tick") /\ ~prev.gameEnd) => CursorLists(effects) = 1

\* C19: every state an update function produces, the first one of a game
\* included, is delivered exactly once to the subscriber render().
C19_EveryStateRendered ==
    applied => Count(effects, "render") = 1

\* C20: a restart, from a running, paused or ended game, starts a game
\* whose initial state has the same templates, gameTime 0, score 0, all
\* lives, no pipes, no spawned times and rngSeed 1234, with the live
\* recording an empty unpublished sequence and the cursor at 0.
C20_RestartResets ==
    event = "restart" =>
        /\ s.pipeTemplates = pipeTemplates /\ s.pipeTemplates = prev.pipeTemplates
        /\ s.gameTime = 0 /\ s.score = 0 /\ s.lives = 3
        /\ s.pipes = << >> /\ s.spawnedPipeTimes = << >>
        /\ s.rngSeed = 1234 /\ s.nextPipeId = 0 /\ ~s.gameEnd
        /\ s.bird = [x |-> 180000, y |-> 200000, vy |-> 0]
        /\ currentGamePositions = << >>
        /\ subjects[currentGameRecording] = << >>
        /\ ~Includes(streams, currentGameRecording)
        /\ gameTime = 0
        /\ ~paused /\ ~hasPrev

\* a game that had ended with no lives left, its seed advanced and its
\* recording published, was restarted
C20_Witness ==
    /\ event = "restart" /\ prev.gameEnd /\ prev.lives = 0
    /\ prev.rngSeed # RNG_SEED /\ Len(streams) >= 1

\* C21: once a restart is processed nothing is derived from the dropped
\* game any more: the cursor is the gameTime of the game now running, the
\* live recording holds samples of that game only (none later than its
\* gameTime, in time order), and the first update after a restart folds
\* over the new game's initial state.
C21_NoInterleaving ==
    /\ gameTime = s.gameTime
    /\ \A k \in 1..Len(currentGamePositions) :
          /\ currentGamePositions[k].time <= s.gameTime
          /\ k > 1 => currentGamePositions[k - 1].time <= currentGamePositions[k].time
    /\ event = "restart" =>
          /\ s.gameTime = 0 /\ s.lives = 3 /\ s.pipes = << >> /\ s.rngSeed = 1234
          /\ currentGamePositions = << >>
    /\ applied =>
          /\ s.gameTime - prev.gameTime \in {0, TICK_RATE_MS}
          /\ (~s.gameEnd /\ Len(currentGamePositions) <= 1) =>
                /\ prev.gameTime = 0 /\ prev.lives = 3 /\ prev.score = 0
                /\ prev.pipes = << >> /\ prev.rngSeed = 1234
                /\ prev.bird.y = 200000

\* the first tick of a game started by a restart, after an earlier game
\* that had collided and ended
C21_Witness ==
    /\ Did("tick") /\ s.gameTime = TICK_RATE_MS
    /\ Len(currentGamePositions) = 1
    /\ Len(streams) >= 1 /\ Len(subjects[streams[1]]) > 1

\* C22: once a recording is published its samples never change: no later
\* tick, jump, pause toggle or restart appends to it, removes from it or
\* reorders it, and it keeps its place among the published recordings.
C22_SealedIsImmutable ==
    [][ \A i \in 1..Len(streams) :
            /\ Len(streams') >= Len(streams)
            /\ streams'[i] = streams[i]
            /\ subjects'[streams[i]] = subjects[streams[i]]
            /\ Len(subjects'[streams[i]]) = Len(subjects[streams[i]]) ]_vars

\* a new game is running and recording while the recording of an earlier
\* game is published
C22_Witness ==
    /\ Len(streams) >= 1 /\ Len(subjects[streams[1]]) > 0
    /\ ~s.gameEnd /\ Did("tick")
    /\ Len(currentGamePositions) > 1
    /\ currentGameRecording # streams[1]

\* the ticks of the game so far that produced a state with gameEnd = false
RunningTicks(st) == IF st.gameEnd THEN tickNo(st) - 1 ELSE tickNo(st)

\* the Space presses of a scripted player so far in a game at state st
ScriptedJumps(pl, st, lastEvent) ==
    Cardinality({k \in 0..(tickNo(st) - 1) : JumpDue(pl, k)})
    + (IF lastEvent = "jump" THEN 1 ELSE 0)

\* C23 (as stated): the live recording gets exactly one sample {x, y,
\* gameTime} per tick applied while the game has not ended and none for a
\* state with gameEnd = true, so it has as many samples as there were
\* ticks that produced a running state.
C23_OneSamplePerTick ==
    /\ Len(currentGamePositions) = RunningTicks(s)
    /\ \A k \in 1..Len(currentGamePositions) :
          currentGamePositions[k].time = k * TICK_RATE_MS

\* C23 (amended): the live recording is append-only and gets exactly one
\* sample {x, y, gameTime} per update function applied, tick or jump, that
\* produces a state with gameEnd = false, and none for a state with
\* gameEnd = true; it has as many samples as there were such ticks and
\* jumps.
C23_OneSamplePerUpdate ==
    [][ /\ (event' \in {"tick", "jump"} /\ applied') =>
              /\ currentGamePositions' =
                    IF s'.gameEnd THEN currentGamePositions
                    ELSE Append(currentGamePositions,
                                [x |-> s'.bird.x, y |-> s'.bird.y, time |-> s'.gameTime])
              /\ subjects'[currentGameRecording] = currentGamePositions'
        /\ ~player.free =>
              Len(currentGamePositions') =
                  RunningTicks(s') + ScriptedJumps(player, s', event') ]_vars

\* a Space press added a sample with the time of the sample before it
C23_Witness ==
    /\ Did("jump") /\ Len(currentGamePositions) >= 2
    /\ currentGamePositions[Len(currentGamePositions)].time =
          currentGamePositions[Len(currentGamePositions) - 1].time
    /\ currentGamePositions[Len(currentGamePositions)].y =
          currentGamePositions[Len(currentGamePositions) - 1].y

\* C24: with an empty template feed the first tick applied to the initial
\* state gives gameEnd = true, with lives and score unchanged.
C24_EmptyFeedEndsAtOnce ==
    (pipeTemplates = << >> /\ Did("tick") /\ prev.gameTime = 0 /\ ~prev.gameEnd) =>
        /\ s.gameEnd
        /\ s.lives = prev.lives /\ s.lives = 3
        /\ s.score = prev.score /\ s.score = 0
        /\ s.gameTime = TICK_RATE_MS /\ s.pipes = << >>

\* the first tick of a game without templates has been applied
C24_Witness ==
    pipeTemplates = << >> /\ Did("tick") /\ s.gameTime = TICK_RATE_MS /\ prev.gameTime = 0

\* the rows of the feed whose spawn time is a number
NumericTimeRows == {i \in 1..Len(pipeTemplates) : ~IsNaN(pipeTemplates[i].time)}

\* the rows of the feed with no NaN field
WellFormedRows ==
    {i \in 1..Len(pipeTemplates) :
        /\ ~IsNaN(pipeTemplates[i].gapY) /\ ~IsNaN(pipeTemplates[i].gapHeight)
        /\ ~IsNaN(pipeTemplates[i].time)}

\* C25 (as stated): a row with any NaN field (gap centre, gap height or
\* spawn time) is never made into a pipe, on any tick of the game.
C25_MalformedRowNeverSpawns ==
    /\ s.nextPipeId <= Cardinality(WellFormedRows)
    /\ \A i \in 1..Len(s.pipes) :
          ~IsNaN(s.pipes[i].gapY) /\ ~IsNaN(s.pipes[i].gapHeight)
    /\ ~Includes(s.spawnedPipeTimes, NaN)

\* C25 (amended): a row whose spawn time is NaN is never made into a pipe,
\* on any tick of the game; a row whose gap centre or gap height is NaN but
\* whose spawn time is a number is made into a pipe like any other row, a
\* pipe with a NaN gap.
C25_NaNTimeNeverSpawns ==
    /\ s.nextPipeId <= Cardinality(NumericTimeRows)
    /\ ~Includes(s.spawnedPipeTimes, NaN)
    /\ NumericTimeRows = {} => (s.pipes = << >> /\ s.nextPipeId = 0)
    /\ \A i \in NumericTimeRows :
          (s.gameTime > 0 /\ pipeTemplates[i].time <= s.gameTime) =>
              /\ Includes(s.spawnedPipeTimes, pipeTemplates[i].time)
              /\ (Did("tick") /\ prev.gameTime = 0) =>
                    \E k \in 1..Len(s.pipes) :
                        /\ s.pipes[k].gapY = MulN(pipeTemplates[i].gapY, CANVAS_HEIGHT)
                        /\ s.pipes[k].gapHeight =
                              MulN(pipeTemplates[i].gapHeight, CANVAS_HEIGHT)

\* a game whose only row has a NaN spawn time has run for ten ticks
\* without a pipe
C25_Witness ==
    /\ Len(pipeTemplates) = 1 /\ IsNaN(pipeTemplates[1].time)
    /\ Did("tick") /\ s.gameTime = 10 * TICK_RATE_MS
    /\ s.pipes = << >> /\ s.nextPipeId = 0

\* the bird's y before the collision of the tick is looked for
TentativeY(before) == before.bird.y + before.bird.vy + GRAVITY

\* C26: a tick that resolves a collision takes exactly one life, however
\* many pipes and boundaries the bird overlaps, and leaves the bird at the
\* tentative y clamped into [0, CANVAS_HEIGHT - Birb.HEIGHT]; a tick without
\* a collision leaves lives alone.
C26_OneLifeAndClamp ==
    (Did("tick") /\ ~prev.gameEnd) =>
        LET y == TentativeY(prev)
            top == Px(CANVAS_HEIGHT) - Px(Birb_HEIGHT)
        IN IF HitSide(prev, s) # "none"
           THEN /\ s.lives = prev.lives - 1
                /\ s.bird.y = (IF y < 0 THEN 0 ELSE IF y > top THEN top ELSE y)
                /\ s.bird.y >= 0 /\ s.bird.y <= top
           ELSE /\ s.lives = prev.lives
                /\ s.bird.y = y

\* the bird fell off the bottom of the world, lost one life and was put back
\* at CANVAS_HEIGHT - Birb.HEIGHT
C26_Witness ==
    /\ Did("tick") /\ ~prev.gameEnd /\ s.lives = prev.lives - 1
    /\ HitSide(prev, s) = "bottom"
    /\ TentativeY(prev) > Px(CANVAS_HEIGHT) - Px(Birb_HEIGHT)
    /\ s.bird.y = Px(CANVAS_HEIGHT) - Px(Birb_HEIGHT)

\* the bird overlapped two pipes at once and lost one life
C26_TwoPipesWitness ==
    /\ Did("tick") /\ ~prev.gameEnd /\ s.lives = prev.lives - 1
    /\ Cardinality({i \in 1..Len(s.pipes) : PipeSides(prev, s)[i] # "none"}) >= 2

\* the ids of the pipes of `after` that are marked passed and were not
\* marked in `before`
NewlyMarked(before, after) ==
    {after.pipes[j].id : j \in {k \in 1..Len(after.pipes) :
        /\ after.pipes[k].passed
        /\ \A i \in 1..Len(before.pipes) :
              before.pipes[i].id = after.pipes[k].id => ~before.pipes[i].passed}}

\* C27: scoring does not depend on the collision of the same tick: on a
\* tick that resolves a collision, against a boundary or a pipe, the pipes
\* newly marked passed and the score increment are what they are on a tick
\* without one, namely the unmarked active pipes whose right edge is left
\* of the bird's x.
C27_ScoreIgnoresCollision ==
    (Did("tick") /\ ~prev.gameEnd /\ HitSide(prev, s) # "none") =>
        /\ s.lives = prev.lives - 1
        /\ NewlyMarked(prev, s) = {prev.pipes[i].id : i \in NewlyPassed(prev)}
        /\ s.score - prev.score = Cardinality(NewlyPassed(prev))
        /\ s.score - prev.score = Cardinality(NewlyMarked(prev, s))

\* a tick bounced the bird off a pipe and scored that pipe
C27_Witness ==
    /\ Collided /\ HitSide(prev, s) \in {"upper", "lower"}
    /\ s.score = prev.score + 1 /\ NewlyMarked(prev, s) # {}

\* a tick bounced the bird off the top of the world and scored a pipe
C27_BoundaryWitness ==
    /\ Collided /\ HitSide(prev, s) = "top"
    /\ s.score = prev.score + 1 /\ NewlyMarked(prev, s) # {}

\* the spawn time of the template that produced a pipe: ids are given in
\* the order in which spawnedPipeTimes grows
TemplateTime(st, pipe) == st.spawnedPipeTimes[pipe.id + 1]

\* C28 (as stated): the pipes are ordered by spawn time: of two pipes the
\* one earlier in the list comes from a template whose spawn time is not
\* later, for any order of the rows of the feed.
C28_OrderedBySpawnTime ==
    \A i, j \in 1..Len(s.pipes) :
        i < j => TemplateTime(s, s.pipes[i]) <= TemplateTime(s, s.pipes[j])

\* C28 (amended): the pipes are ordered by the tick that spawned them, and
\* pipes spawned by the same tick are in the order of their rows in the
\* feed: of two pipes the one earlier in the list has the lower id and is
\* not right of the other, and when the two were spawned by different ticks
\* (they differ in x) its template's spawn time is the smaller.
C28_OrderedBySpawnTick ==
    \A i, j \in 1..Len(s.pipes) :
        i < j =>
            /\ s.pipes[i].id < s.pipes[j].id
            /\ s.pipes[i].x <= s.pipes[j].x
            /\ s.pipes[i].x < s.pipes[j].x =>
                  TemplateTime(s, s.pipes[i]) < TemplateTime(s, s.pipes[j])
            /\ s.pipes[i].x = s.pipes[j].x =>
                  \E a, b \in 1..Len(pipeTemplates) :
                      /\ a < b
                      /\ pipeTemplates[a].time = TemplateTime(s, s.pipes[i])
                      /\ pipeTemplates[b].time = TemplateTime(s, s.pipes[j])

\* the first tick spawned the 10 ms row before the 0 ms row, as the feed
\* lists them
C28_Witness ==
    /\ Len(s.pipes) = 2 /\ s.spawnedPipeTimes = << 10, 0 >>
    /\ s.pipes[1].x = s.pipes[2].x
    /\ TemplateTime(s, s.pipes[1]) > TemplateTime(s, s.pipes[2])

\* C29: jump on a state that has not ended sets the bird's vertical speed
\* to -4 whatever it was and leaves every other field as it was (the bird's
\* x and y, the pipes, gameTime, lives, rngSeed, score, gameEnd and the
\* spawn bookkeeping); jump on an ended state changes nothing.
C29_JumpFrame ==
    Did("jump") =>
        IF prev.gameEnd
        THEN s = prev
        ELSE /\ s.bird.vy = 0 - Px(4)
             /\ s.bird.x = prev.bird.x /\ s.bird.y = prev.bird.y
             /\ s.pipes = prev.pipes
             /\ s.gameTime = prev.gameTime
             /\ s.lives = prev.lives
             /\ s.rngSeed = prev.rngSeed
             /\ s.score = prev.score
             /\ s.gameEnd = prev.gameEnd /\ ~s.gameEnd
             /\ s.pipeTemplates = prev.pipeTemplates
             /\ s.spawnedPipeTimes = prev.spawnedPipeTimes
             /\ s.nextPipeId = prev.nextPipeId
             /\ s = [prev EXCEPT !.bird.vy = 0 - Px(4)]

\* a falling bird jumped in a game with a pipe on screen
C29_Witness ==
    /\ Did("jump") /\ ~prev.gameEnd /\ prev.bird.vy > 0 /\ prev.gameTime > 0
    /\ prev.pipes # << >> /\ s.bird.vy = 0 - Px(4)

\* Space was pressed after the game had ended
C29_EndedWitness == Did("jump") /\ prev.gameEnd /\ s = prev /\ s.bird.vy # 0 - Px(4)

\* C30: after a restart the new game is not paused, whatever the pause flag
\* was before it: the restart leaves the gate open, and a tick that comes
\* next is applied to the new game's initial state.
C30_RestartClearsPause ==
    [][ /\ event' = "restart" => (~paused' /\ ~s'.gameEnd /\ s'.gameTime = 0)
        /\ (event = "restart" /\ event' = "tick") =>
              /\ applied'
              /\ prev' = s /\ prev'.gameTime = 0
              /\ s'.gameTime = TICK_RATE_MS
              /\ Len(currentGamePositions') = (IF s'.gameEnd THEN 0 ELSE 1) ]_vars

\* R was pressed while the game was paused and the new game runs
C30_Witness ==
    /\ event = "restart" /\ Includes(effects, "resume")
    /\ ~paused /\ s.gameTime = 0 /\ prev.gameTime > 0

\* the first tick after a restart was applied to the new game
C30_TickWitness ==
    /\ Did("tick") /\ s.gameTime = TICK_RATE_MS /\ Len(subjects) >= 2 /\ ~paused

\* C31: lives is an integer in 0..3 in every state: it is never negative,
\* no update of a game raises it, and a state with no life left has ended.
C31_LivesRange ==
    /\ s.lives \in 0..INITIAL_LIVES /\ INITIAL_LIVES = 3
    /\ s.lives = 0 => s.gameEnd
    /\ applied => s.lives <= prev.lives
    /\ (applied /\ prev.lives = 0) => s = prev

\* the tick that took the last life ended the game
C31_Witness ==
    Did("tick") /\ prev.lives = 1 /\ ~prev.gameEnd /\ s.lives = 0 /\ s.gameEnd

\* a tick arrived after the last life was lost
C31_AfterEndWitness == Did("tick") /\ prev.lives = 0 /\ s.lives = 0

\* 1234 advanced by RNG.hash zero to three times
SeedAfter == << RNG_SEED, 233191843, 128476320, 85706848 >>

\* the speed, in thousandths of a pixel per tick, of the bounce of the
\* first, second and third collision of a game
BounceSpeed == << 6131, 6521, 6680 >>

\* C32: in every state of a game rngSeed is 1234 advanced by RNG.hash
\* exactly INITIAL_LIVES - lives times, so it takes at most four values in
\* a game, and the bounce of the k-th collision has the same speed in
\* every game, whenever the collision happens and whatever was jumped.
C32_SeedCountsCollisions ==
    /\ s.rngSeed = SeedAfter[(INITIAL_LIVES - s.lives) + 1]
    /\ Collided => s.rngSeed = RNG_hash(SeedAfter[INITIAL_LIVES - s.lives])
    /\ Collided => Abs(s.bird.vy) = BounceSpeed[INITIAL_LIVES - s.lives]

\* the second collision of a second game, after a jump, left the second
\* seed after 1234
C32_Witness ==
    /\ Collided /\ s.lives = 1 /\ s.rngSeed = 128476320
    /\ Len(subjects) >= 2 /\ jumpsUsed >= 1
    /\ Abs(s.bird.vy) = 6521

\* the number of the tick that spawns a row with a numeric spawn time: the
\* first tick whose newGameTime is not before it
SpawnTick(time) ==
    IF time <= TICK_RATE_MS THEN 1
    ELSE (time + (TICK_RATE_MS - 1)) \div TICK_RATE_MS

\* the rows spawned by the first n ticks, as indices of the feed, in the
\* order of their spawning: by tick, and by row within a tick
RECURSIVE SpawnOrder(_, _)
SpawnOrder(templates, rows) ==
    IF rows = {} THEN << >>
    ELSE LET first == CHOOSE i \in rows : \A j \in rows :
                          \/ SpawnTick(templates[i].time) < SpawnTick(templates[j].time)
                          \/ /\ SpawnTick(templates[i].time) = SpawnTick(templates[j].time)
                             /\ i <= j
         IN << first >> \o SpawnOrder(templates, rows \ {first})

SpawnedBy(templates, n) ==
    SpawnOrder(templates,
               {i \in 1..Len(templates) :
                   ~IsNaN(templates[i].time) /\ SpawnTick(templates[i].time) <= n})

\* the x of a pipe after tick n: it moves on the tick that spawns it
XAfter(time, n) == PIPE_SPAWN_X - Px(PIPE_SPEED) * ((n - SpawnTick(time)) + 1)

\* the pipes after n ticks as the feed and n alone give them; birdX is the
\* x every bird starts with
CourseAfter(templates, n, birdX) ==
    LET order == SpawnedBy(templates, n)
        all == [k \in 1..Len(order) |->
                   [ id |-> k - 1,
                     x |-> XAfter(templates[order[k]].time, n),
                     gapY |-> MulN(templates[order[k]].gapY, CANVAS_HEIGHT),
                     gapHeight |-> MulN(templates[order[k]].gapHeight, CANVAS_HEIGHT),
                     passed |-> XAfter(templates[order[k]].time, n) + Px(PIPE_WIDTH) < birdX ]]
    IN [ pipes |-> SelectSeq(all, LAMBDA pipe : pipe.x > 0 - Px(PIPE_WIDTH)),
         spawnedPipeTimes |-> [k \in 1..Len(order) |-> templates[order[k]].time],
         nextPipeId |-> Len(order),
         gameTime |-> n * TICK_RATE_MS,
         score |-> Cardinality({k \in 1..Len(all) : all[k].passed}) ]

\* C33: the pipes and the score do not depend on the bird's motion: after
\* the same number of ticks over the same feed, and until the game ends,
\* the pipes (ids, x, gaps, passed flags), spawnedPipeTimes, nextPipeId,
\* gameTime and score are those the feed and the number of ticks give,
\* whatever was jumped and whatever the bird hit.
C33_CourseIgnoresBird ==
    ~s.gameEnd =>
        LET course == CourseAfter(pipeTemplates, tickNo(s),
                                  createInitialState(pipeTemplates).bird.x)
        IN /\ s.pipes = course.pipes
           /\ s.spawnedPipeTimes = course.spawnedPipeTimes
           /\ s.nextPipeId = course.nextPipeId
           /\ s.gameTime = course.gameTime
           /\ s.score = course.score

\* a run with jumps and a lost life has a pipe on screen and has scored
C33_Witness ==
    /\ ~s.gameEnd /\ ~player.free /\ player.p1 > 0
    /\ s.lives < INITIAL_LIVES /\ s.score >= 1 /\ s.pipes # << >>
    /\ s.pipes = CourseAfter(pipeTemplates, tickNo(s), s.bird.x).pipes

\* the pipes of `before` that a tick removes
Removed(before, after) ==
    {i \in 1..Len(before.pipes) :
        \A j \in 1..Len(after.pipes) : after.pipes[j].id # before.pipes[i].id}

\* C34: every pipe is marked passed, and counted, on a tick before the tick
\* that removes it as off-screen; so a game that ends with lives left, over
\* a feed whose spawn times are all numbers, ends with a score equal to the
\* number of rows of the feed.
C34_PassedBeforeRemoved ==
    /\ (Did("tick") /\ ~prev.gameEnd) =>
          \A i \in Removed(prev, s) :
              /\ prev.pipes[i].passed
              /\ prev.pipes[i].x - Px(PIPE_SPEED) <= 0 - Px(PIPE_WIDTH)
              /\ prev.score >= 1
    /\ (s.gameEnd /\ s.lives > 0 /\ NumericTimeRows = 1..Len(pipeTemplates)) =>
          /\ s.score = Len(pipeTemplates)
          /\ s.nextPipeId = Len(pipeTemplates)
          /\ s.pipes = << >>

\* the tick that removed the two pipes of a feed ended the game with a
\* score of 2 and lives left
C34_Witness ==
    /\ Did("tick") /\ ~prev.gameEnd /\ s.gameEnd /\ s.lives > 0
    /\ Len(pipeTemplates) = 2 /\ Cardinality(Removed(prev, s)) = 2
    /\ s.score = 2

\* the number of ticks a pipe lives: after that many moves from PIPE_SPAWN_X
\* its right edge is at or left of x = 0
PipeLife == (PIPE_SPAWN_X + Px(PIPE_WIDTH) + (Px(PIPE_SPEED) - 1)) \div Px(PIPE_SPEED)

\* the tick at which the last-spawned pipe of the feed has moved fully off
\* the left edge (the first tick for a feed without rows)
LastTick(templates) ==
    IF templates = << >> THEN 1
    ELSE LET last == CHOOSE i \in 1..Len(templates) : \A j \in 1..Len(templates) :
                         SpawnTick(templates[j].time) <= SpawnTick(templates[i].time)
         IN SpawnTick(templates[last].time) + (PipeLife - 1)

\* C35: over a feed whose spawn times are all numbers, with ticks applied
\* for as long as the game runs, the game ends whatever is jumped, and a
\* game still running has not reached the tick at which the last-spawned
\* pipe has moved fully off the left edge.
C35_EndsByLastTick ==
    /\ [](NumericTimeRows = 1..Len(pipeTemplates) =>
             (~s.gameEnd => tickNo(s) < LastTick(pipeTemplates)))
    /\ (NumericTimeRows = 1..Len(pipeTemplates)) ~> s.gameEnd

\* a game over a feed with a row due after a second ended, with lives left,
\* on the tick that moved its last pipe off the left edge
C35_Witness ==
    /\ Did("tick") /\ ~prev.gameEnd /\ s.gameEnd /\ s.lives > 0
    /\ NumericTimeRows = 1..Len(pipeTemplates)
    /\ tickNo(s) = LastTick(pipeTemplates) /\ LastTick(pipeTemplates) > PipeLife
    /\ prev.pipes # << >>

\* some row of the feed has a NaN spawn time
SomeNaNTime == \E i \in 1..Len(pipeTemplates) : IsNaN(pipeTemplates[i].time)

\* C36: over a feed with a row whose spawn time is NaN the game never ends
\* by the end of the course: it ends only when no life is left, however
\* many ticks are applied after the other pipes have been cleared.
C36_NaNTimeNeverExhausts ==
    SomeNaNTime =>
        /\ s.gameEnd <=> s.lives = 0
        /\ (Did("tick") /\ ~prev.gameEnd /\ s.gameEnd) => (prev.lives = 1 /\ Collided)
        /\ s.nextPipeId < Len(pipeTemplates)

\* the only pipe of a feed with a second, never due row was passed and
\* removed fifty ticks ago, and the game still runs
C36_Witness ==
    /\ SomeNaNTime /\ Len(pipeTemplates) = 2
    /\ ~s.gameEnd /\ s.lives > 0
    /\ s.pipes = << >> /\ s.nextPipeId = 1 /\ s.score = 1
    /\ tickNo(s) >= PipeLife + 50

\* C37: after every event the cursor gameTime$ holds the gameTime of the
\* last state the running game produced, or 0 when it has produced none
\* since it was started or restarted; it never holds a time of a game that
\* a restart dropped.
C37_CursorFollowsLiveGame ==
    /\ gameTime = (IF hasPrev THEN s.gameTime ELSE 0)
    /\ event \in {"start", "restart"} => (gameTime = 0 /\ ~hasPrev)
    /\ applied => (hasPrev /\ gameTime = prev.gameTime + (IF s = prev \/ event = "jump"
                                                         THEN 0 ELSE TICK_RATE_MS))
    /\ (~applied /\ event \in {"tick", "jump", "pause"}) =>
          \/ ~hasPrev /\ gameTime = 0
          \/ hasPrev /\ gameTime = s.gameTime

\* R dropped a game that had run for more than a tick and the cursor is 0
C37_Witness ==
    /\ event = "restart" /\ prev.gameTime > TICK_RATE_MS
    /\ gameTime = 0 /\ ~hasPrev /\ s.gameTime = 0

\* the first tick of a game started by R moved the cursor from 0
C37_TickWitness ==
    /\ Did("tick") /\ Len(subjects) >= 2 /\ prev.gameTime = 0
    /\ gameTime = TICK_RATE_MS

\* C38: every ghost list delivered to the subscriber in render() is of one
\* cursor value: each of its snapshots is the one its recording gives at
\* the current value of gameTime$, never some at the new value and some at
\* the value before.
C38_ListsOfOneCursorValue ==
    \A k \in 1..Len(ghostOut) :
        /\ Len(ghostOut[k]) <= Len(streams)
        /\ \A i \in 1..Len(ghostOut[k]) :
              ghostOut[k][i] =
                  createGhostFromRecording(subjects[streams[i]], ghostOpacity(i - 1), gameTime)

\* C39: after every tick the bird's rectangle lies inside the world: its
\* top edge y - Birb.HEIGHT / 2 is at or below the top of the world and
\* its bottom edge y + Birb.HEIGHT / 2 at or above the bottom, also in the
\* state of a tick that resolved a collision with the top or the bottom.
C39_BirdInsideWorld ==
    (Did("tick") /\ ~prev.gameEnd) =>
        /\ s.bird.y - Px(Birb_HEIGHT) \div 2 >= 0
        /\ s.bird.y + Px(Birb_HEIGHT) \div 2 <= Px(CANVAS_HEIGHT)

=============================================================================
